---------------------------- MODULE Spec2Model ----------------------------
(***************************************************************************)
(* pacwrap (scripts/python/pacwrap_cli.py): the package ledger, the        *)
(* update-staleness policy and the commands that reconcile the ledger      *)
(* with the package manager.                                               *)
(*                                                                         *)
(* Every CLI invocation is one process: Pacwrap() constructs the Database  *)
(* (which loads the backing file), run() dispatches one command, and the   *)
(* process exits.  What survives between invocations is the backing file,  *)
(* so the persistent state is `file`.                                      *)
(*                                                                         *)
(* Time is counted in seconds.  A timestamp string is modelled by the      *)
(* form it is written in and the second it denotes: two strftime outputs   *)
(* are equal exactly when they were taken within the same second.          *)
(* A Python dict keeps insertion order; the ledger is modelled as a        *)
(* function from names to entries and iterated in the order of NameOrder.  *)
(***************************************************************************)
EXTENDS Integers, Sequences, FiniteSets, TLC

VARIABLES
    file,     \* the backing file ~/.local/share/pacwrap/db.json
    now,      \* the wall clock, in seconds
    last      \* what the last process did: command, flags, result, subprocesses;
              \* its cmd is "none" once the shell has the prompt back

vars == <<file, now, last>>

---------------------------------------------------------------------------
(* Bounds of the model *)

\* the seconds the clock may advance
MaxTicks == 1

\* the entries a ledger may hold
MaxPkgs == 2

\* The longest update_history a direct call of the store is let to build
MaxHistory == 2

\* The number of calls one caller of the store makes in a row
MaxCalls == 2

\* The oldest stamp, in days, the staleness policy is asked about
MaxAgeDays == 95

(* Program constants *)

SecondsPerDay == 86400

CriticalDays == 90

WarningDays == 30

RecommendedDays == 7

\* len(Spinner.chars)
SpinnerFrames == 10

(* The names the commands are given; "test-pkg" is the self-test's own. *)
NameOrder == <<"htop", "yay-bin", "test-pkg">>

Names == {NameOrder[i] : i \in 1..Len(NameOrder)}

StartTime == 100 * SecondsPerDay

---------------------------------------------------------------------------
(* Timestamps.  k is the form of the stored value:                         *)
(*   none      None, or the empty string                                   *)
(*   human     "%a %d %b %Y %I:%M:%S %p %Z" of a naive datetime: %Z is     *)
(*             empty, the string ends in "PM " or "AM "                    *)
(*   humanutc  the same format with the zone name UTC                      *)
(*   iso       datetime.isoformat() of a naive datetime                    *)
(*   isoutc    datetime.isoformat() of a datetime aware of UTC             *)
(*   sys       pacman's "Install Date" text                                *)

NoDate == [k |-> "none", t |-> 0]

Stamp(kind, t) == [k |-> kind, t |-> t]

IsSet(d) == d.k # "none"

\* datetime.now().strftime("%a %d %b %Y %I:%M:%S %p %Z")
strftime_now(t) == Stamp("human", t)

\* datetime.fromisoformat(s) succeeds
fromisoformat_ok(d) == d.k \in {"iso", "isoutc"}

\* dt = datetime.fromisoformat(s); dt.strftime(...) ; except ValueError: pass
normalize_date(d) ==
    IF d.k = "iso" THEN Stamp("human", d.t)
    ELSE IF d.k = "isoutc" THEN Stamp("humanutc", d.t)
    ELSE d

---------------------------------------------------------------------------
(* The ledger *)

NoPackages == [n \in {} |-> 0]

default_data ==
    [packages |-> NoPackages, metadata |-> [last_full_update_date |-> NoDate]]

Tracked(d) == DOMAIN d.packages

\* The file's kinds: absent; ledger (what json.dump wrote, whole); torn (cut
\* short or emptied: not JSON); nokeys (a JSON object without "packages");
\* notobject (JSON, but a list, number or null); unreadable (open or decode
\* raises OSError or UnicodeDecodeError).
AbsentFile == [kind |-> "absent", data |-> default_data]

LedgerFile(d) == [kind |-> "ledger", data |-> d]

DamagedFile(kind) == [kind |-> kind, data |-> default_data]

\* A Database object: the in-memory record and the contents written so far.
NewDb(d) == [data |-> d, writes |-> <<>>]

\* Database._save: the whole record is written.
save(db) == [db EXCEPT !.writes = Append(@, db.data)]

load_normalize(d) ==
    [packages |->
        [n \in DOMAIN d.packages |->
            [d.packages[n] EXCEPT !.last_update_date = normalize_date(@)]],
     metadata |->
        [last_full_update_date |-> normalize_date(d.metadata.last_full_update_date)]]

\* Database._load.  raised: an exception left _load (nothing catches it in
\* Pacwrap.__init__ or main); usable: the record has "packages" and "metadata".
load(f) ==
    IF f.kind = "absent"
    THEN [raised |-> FALSE, usable |-> TRUE, db |-> save(NewDb(default_data))]
    ELSE IF f.kind = "ledger"
    THEN [raised |-> FALSE, usable |-> TRUE, db |-> NewDb(load_normalize(f.data))]
    ELSE IF f.kind = "torn"
    THEN [raised |-> FALSE, usable |-> TRUE, db |-> NewDb(default_data)]
    ELSE IF f.kind = "nokeys"
    THEN [raised |-> FALSE, usable |-> FALSE, db |-> NewDb(default_data)]
    ELSE [raised |-> TRUE, usable |-> FALSE, db |-> NewDb(default_data)]

NewEntry(name, repo, dependencies, installed, version, install_date, groups, provides, t) ==
    [name |-> name,
     installed |-> installed,
     repo |-> repo,
     dependencies |-> dependencies,
     groups |-> groups,
     provides |-> provides,
     version |-> version,
     install_date |-> IF IsSet(install_date) THEN install_date ELSE strftime_now(t),
     update_history |-> <<>>,
     last_update_date |-> strftime_now(t)]

\* the merge of lines 171-182, had it kept the lists and the repo it is given
\* nothing for
MergeEntry_keeps_details(pkg, repo, dependencies, installed, version, install_date, groups, provides, t) ==
    [pkg EXCEPT
        !.installed = installed,
        !.repo = IF dependencies = <<>> /\ groups = <<>> /\ provides = <<>> THEN @ ELSE repo,
        !.dependencies = IF dependencies # <<>> THEN dependencies ELSE @,
        !.groups = IF groups # <<>> THEN groups ELSE @,
        !.provides = IF provides # <<>> THEN provides ELSE @,
        !.last_update_date = strftime_now(t),
        !.version = IF version # "" THEN version ELSE @,
        !.install_date = IF IsSet(install_date) THEN install_date ELSE @]

MergeEntry(pkg, repo, dependencies, installed, version, install_date, groups, provides, t) ==
    [pkg EXCEPT
        !.installed = installed,
        !.repo = repo,
        !.dependencies = dependencies,
        !.groups = groups,
        !.provides = provides,
        !.last_update_date = strftime_now(t),
        !.version = IF version # "" THEN version ELSE @,
        !.install_date = IF IsSet(install_date) THEN install_date ELSE @]

PutEntry(pkgs, name, e) ==
    [n \in DOMAIN pkgs \cup {name} |-> IF n = name THEN e ELSE pkgs[n]]

\* Database.add_package
add_package(db, name, repo, dependencies, installed, version, install_date, groups, provides, t) ==
    LET pkgs == db.data.packages
        e == IF name \in DOMAIN pkgs
             THEN MergeEntry(pkgs[name], repo, dependencies, installed, version,
                             install_date, groups, provides, t)
             ELSE NewEntry(name, repo, dependencies, installed, version,
                           install_date, groups, provides, t)
    IN  save([db EXCEPT !.data.packages = PutEntry(pkgs, name, e)])

\* set_installed, had it rewritten the entry instead of assigning two fields
set_installed_rewrites(db, name, installed, t) ==
    IF name \in DOMAIN db.data.packages
    THEN save([db EXCEPT !.data.packages[name].installed = installed,
                         !.data.packages[name].last_update_date = strftime_now(t),
                         !.data.packages[name].update_history = <<>>])
    ELSE db

\* Database.set_installed
set_installed(db, name, installed, t) ==
    IF name \in DOMAIN db.data.packages
    THEN save([db EXCEPT !.data.packages[name].installed = installed,
                         !.data.packages[name].last_update_date = strftime_now(t)])
    ELSE db

\* add_version_history, had it made the entry it does not find
add_version_history_creates(db, name, version, t) ==
    LET h == <<[version |-> version, date |-> strftime_now(t)]>>
        e == [name |-> name, update_history |-> h, last_update_date |-> strftime_now(t)]
    IN  IF name \in DOMAIN db.data.packages
        THEN save([db EXCEPT !.data.packages[name].update_history = @ \o h])
        ELSE save([db EXCEPT !.data.packages = PutEntry(@, name, e)])

\* Database.add_version_history
add_version_history(db, name, version, t) ==
    IF name \in DOMAIN db.data.packages
    THEN save([db EXCEPT !.data.packages[name].update_history =
                            Append(@, [version |-> version, date |-> strftime_now(t)])])
    ELSE db

\* Database.update_metadata("last_full_update_date", value)
update_metadata(db, value) ==
    save([db EXCEPT !.data.metadata.last_full_update_date = normalize_date(value)])

\* Database.query_packages(**filters): filters is a set of <<key, value>>; an
\* entry is dropped when it has the key and another value for it.
query_packages_strict(db, filters) ==
    {n \in DOMAIN db.data.packages :
        \A f \in filters :
            f[1] \in DOMAIN db.data.packages[n] /\ db.data.packages[n][f[1]] = f[2]}

query_packages(db, filters) ==
    {n \in DOMAIN db.data.packages :
        \A f \in filters :
            ~(f[1] \in DOMAIN db.data.packages[n] /\ db.data.packages[n][f[1]] # f[2])}

---------------------------------------------------------------------------
(* The staleness policy *)

\* datetime.strptime(s, "%a %d %b %Y %I:%M:%S %p %Z") succeeds: %Z must match a
\* zone name (utc, gmt or time.tzname), which the empty zone of "human" is not.
strptime_ok(d) == d.k = "humanutc"

\* (datetime.now() - last_date).days: floor of the difference in days
days_since(d, t) == (t - d.t) \div SecondsPerDay

\* the bands, had the comparisons been strict
BandOf_strict(days) ==
    IF days > CriticalDays THEN [must |-> TRUE, band |-> "critical"]
    ELSE IF days > WarningDays THEN [must |-> FALSE, band |-> "warning"]
    ELSE IF days > RecommendedDays THEN [must |-> FALSE, band |-> "recommended"]
    ELSE [must |-> FALSE, band |-> "recent"]

\* if days_since_update >= 90 / >= 30 / >= 7 / else
BandOf(days) ==
    IF days >= CriticalDays THEN [must |-> TRUE, band |-> "critical"]
    ELSE IF days >= WarningDays THEN [must |-> FALSE, band |-> "warning"]
    ELSE IF days >= RecommendedDays THEN [must |-> FALSE, band |-> "recommended"]
    ELSE [must |-> FALSE, band |-> "recent"]

\* Pacwrap._check_update_policy.  An aware datetime (isoutc) parses, and the
\* subtraction from the naive datetime.now() raises TypeError.
check_update_policy(last_update, t) ==
    IF ~IsSet(last_update) THEN [must |-> TRUE, band |-> "none", raised |-> FALSE]
    ELSE IF strptime_ok(last_update) \/ last_update.k = "iso"
    THEN [must |-> BandOf(days_since(last_update, t)).must,
          band |-> BandOf(days_since(last_update, t)).band,
          raised |-> FALSE]
    ELSE IF last_update.k = "isoutc"
    THEN [must |-> FALSE, band |-> "typeerror", raised |-> TRUE]
    ELSE [must |-> TRUE, band |-> "invalid", raised |-> FALSE]

---------------------------------------------------------------------------
(* The executor: SystemInterface.  What the package manager and the helper *)
(* answer is the environment's choice, handed in as env.                   *)

\* SystemInterface._detect_aur_helper leaves aur_helper set on every path
\* (the configured one, paru, yay, or the default paru).
aur_helper == "paru"

Call(cmd, pkg) == [cmd |-> cmd, pkg |-> pkg]

\* The subprocesses that change the system or enumerate it
IsExecutorCall(c) ==
    c.cmd \in {"install", "install-aur", "remove", "update", "update-aur", "list-explicit"}

(* What pacman and the helper report about the packages of the system.     *)
(* A name with a version decoration ("ncurses>=6") is the pair of its bare *)
(* name and the decoration; "None" is the empty list.                      *)
Tok(n, q) == [n |-> n, q |-> q]

\* g.split('>=')[0].split('<=')[0].split('=')[0].split('>')[0].split('<')[0]
strip_version(tok) == tok.n

StripAll(toks) == [i \in 1..Len(toks) |-> strip_version(toks[i])]

SysDate == Stamp("sys", StartTime - 10 * SecondsPerDay)

Catalog(name) ==
    IF name = "htop"
    THEN [official |-> TRUE, repository |-> "extra",
          groups |-> <<>>, provides |-> <<>>,
          version |-> "3.3.0", install_date |-> SysDate,
          depends |-> <<Tok("ncurses", ">=6"), Tok("libnl", "")>>]
    ELSE IF name = "test-pkg"
    THEN [official |-> FALSE, repository |-> "",
          groups |-> <<>>, provides |-> <<>>,
          version |-> "", install_date |-> NoDate, depends |-> <<>>]
    ELSE [official |-> FALSE, repository |-> "",
          groups |-> <<>>, provides |-> <<Tok("yay", "=12")>>,
          version |-> "12.0.5", install_date |-> SysDate,
          depends |-> <<Tok("pacman", ">5"), Tok("git", "")>>]

SysNames == {"htop", "yay-bin"}

\* SystemInterface.is_package_in_repos: pacman -Si exits 0 for the packages of
\* the official repositories
is_package_in_repos(package) ==
    [found |-> Catalog(package).official, calls |-> <<Call("query-repo", package)>>]

\* SystemInterface.install_package; env.ok: the install command exited 0.
install_package(package, dryrun, env) ==
    LET q == is_package_in_repos(package)
    IN  IF dryrun THEN [ok |-> TRUE, calls |-> <<>>]
        ELSE IF ~q.found /\ aur_helper = ""
        THEN [ok |-> FALSE, calls |-> q.calls]
        ELSE [ok |-> env.ok,
              calls |-> q.calls \o <<Call(IF q.found THEN "install" ELSE "install-aur", package)>>]

\* SystemInterface.remove_package
remove_package(package, dryrun, env) ==
    IF dryrun THEN [ok |-> TRUE, calls |-> <<>>]
    ELSE [ok |-> env.ok, calls |-> <<Call("remove", package)>>]

\* update_system, had it gone on to the helper after pacman -Syu failed
update_system_runs_both(dryrun, env) ==
    IF dryrun THEN [ok |-> TRUE, calls |-> <<>>]
    ELSE IF aur_helper = "" THEN [ok |-> env.pacmanOk, calls |-> <<Call("update", "")>>]
    ELSE [ok |-> env.pacmanOk /\ env.helperOk,
          calls |-> <<Call("update", ""), Call("update-aur", "")>>]

\* SystemInterface.update_system; env.pacmanOk: pacman -Syu exited 0,
\* env.helperOk: <helper> -Sua exited 0.
update_system(dryrun, env) ==
    IF dryrun THEN [ok |-> TRUE, calls |-> <<>>]
    ELSE IF ~env.pacmanOk THEN [ok |-> FALSE, calls |-> <<Call("update", "")>>]
    ELSE IF aur_helper = "" THEN [ok |-> TRUE, calls |-> <<Call("update", "")>>]
    ELSE [ok |-> env.helperOk,
          calls |-> <<Call("update", ""), Call("update-aur", "")>>]



\* The parse of `pacman -Si` (lines 411-423): Provides is kept only when the
\* Groups line read before it was not "None", and is not itself tested.
parse_official(c) ==
    [repo |-> IF c.repository = "" THEN "unknown" ELSE c.repository,
     groups |-> StripAll(c.groups),
     provides |-> IF c.groups # <<>>
                  THEN (IF c.provides = <<>> THEN <<"None">> ELSE StripAll(c.provides))
                  ELSE <<>>]

\* The parse of `<helper> -Si` (lines 426-442)
parse_aur(c) ==
    [repo |-> "aur", groups |-> StripAll(c.groups), provides |-> StripAll(c.provides)]

\* pkg_info of one listed package whose queries succeed
pkg_info(name) ==
    LET c == Catalog(name)
        si == IF c.official THEN parse_official(c) ELSE parse_aur(c)
    IN  [name |-> name, repo |-> si.repo, groups |-> si.groups,
         provides |-> si.provides, version |-> c.version,
         install_date |-> c.install_date, dependencies |-> StripAll(c.depends)]

\* get_explicitly_installed_packages, had the failure of one package's query
\* been handled by the outer except (lines 470-472) instead of the inner one
get_explicitly_installed_packages_aborts(env) ==
    IF ~env.listOk \/ \E n \in env.listed : env.outcome[n] \in {"qfail", "sifail"}
    THEN [pkgs |-> <<>>, calls |-> <<Call("list-explicit", "")>>]
    ELSE LET kept == SelectSeq(NameOrder,
                        LAMBDA n : n \in env.listed /\ env.outcome[n] = "explicit")
         IN  [pkgs |-> [i \in 1..Len(kept) |-> pkg_info(kept[i])],
              calls |-> <<Call("list-explicit", "")>>]

\* SystemInterface.get_explicitly_installed_packages.  env.listOk: pacman -Qqe
\* exited 0; env.listed: the names it printed; env.outcome[n]: "explicit" or
\* "dependency" (the Install Reason of pacman -Qi), "noreason" (pacman -Qi
\* printed no Install Reason line), "qfail" (pacman -Qi failed) or "sifail"
\* (the -Si query raised: the command is missing or its output cannot be read).
get_explicitly_installed_packages(env) ==
    IF ~env.listOk THEN [pkgs |-> <<>>, calls |-> <<Call("list-explicit", "")>>]
    ELSE LET kept == SelectSeq(NameOrder,
                        LAMBDA n : n \in env.listed /\ env.outcome[n] = "explicit")
         IN  [pkgs |-> [i \in 1..Len(kept) |-> pkg_info(kept[i])],
              calls |-> <<Call("list-explicit", "")>>]

---------------------------------------------------------------------------
(* The commands: Pacwrap.cmd_*.  Each takes the Database the process       *)
(* loaded and returns it with the command's result.                        *)

\* cmd_install, had it recorded the package whatever install_package returned
cmd_install_records_first(db, package, dryrun, env, t) ==
    LET r == install_package(package, dryrun, env)
        q == is_package_in_repos(package)
        repo == IF ~q.found THEN "aur" ELSE "core"
    IN  [db |-> add_package(db, package, repo, <<>>, TRUE, "", NoDate, <<>>, <<>>, t),
         ok |-> r.ok, calls |-> r.calls \o q.calls]

\* Pacwrap.cmd_install
cmd_install(db, package, dryrun, env, t) ==
    LET r == install_package(package, dryrun, env)
        q == is_package_in_repos(package)
        repo == IF ~q.found THEN "aur" ELSE "core"
    IN  IF r.ok
        THEN [db |-> add_package(db, package, repo, <<>>, TRUE, "", NoDate, <<>>, <<>>, t),
              ok |-> TRUE, calls |-> r.calls \o q.calls]
        ELSE [db |-> db, ok |-> FALSE, calls |-> r.calls]

\* Pacwrap.cmd_uninstall
cmd_uninstall(db, package, dryrun, env, t) ==
    LET r == IF ~dryrun THEN remove_package(package, dryrun, env)
             ELSE [ok |-> TRUE, calls |-> <<>>]
    IN  IF r.ok
        THEN [db |-> set_installed(db, package, FALSE, t), ok |-> TRUE, calls |-> r.calls]
        ELSE [db |-> db, ok |-> FALSE, calls |-> r.calls]

\* the response, had it been compared as typed
Lower_as_typed(response) == response

\* response.lower()
Lower(response) == IF response = "Y" THEN "y" ELSE response

\* Pacwrap.cmd_update.  prompted: input("Update anyway? (y/N): ") was read;
\* ran: update_system was called.
cmd_update(db, force, interactive, response, dryrun, env, t) ==
    LET pol == check_update_policy(db.data.metadata.last_full_update_date, t)
        advise == ~force /\ ~pol.must
        prompted == advise /\ interactive
        stop == advise /\ (~interactive \/ Lower(response) # "y")
        r == update_system(dryrun, env)
    IN  IF stop
        THEN [db |-> db, ok |-> TRUE, calls |-> <<>>, must |-> pol.must,
              prompted |-> prompted, ran |-> FALSE]
        ELSE IF r.ok
        THEN [db |-> update_metadata(db, strftime_now(t)), ok |-> TRUE, calls |-> r.calls,
              must |-> pol.must, prompted |-> prompted, ran |-> TRUE]
        ELSE [db |-> db, ok |-> FALSE, calls |-> r.calls,
              must |-> pol.must, prompted |-> prompted, ran |-> TRUE]

\* cmd_sync, had it given up at the first install that fails
cmd_sync_stops_at_failure(db, dryrun, env) ==
    LET packages == query_packages(db, {<<"installed", TRUE>>})
        order == SelectSeq(NameOrder, LAMBDA n : n \in packages)
        runs == [i \in 1..Len(order) |-> install_package(order[i], dryrun, env[order[i]])]
        bad == {j \in 1..Len(order) : ~runs[j].ok}
        stop == IF bad = {} THEN Len(order) ELSE CHOOSE j \in bad : \A k \in bad : j <= k
        Calls[i \in 0..Len(order)] == IF i = 0 THEN <<>> ELSE Calls[i - 1] \o runs[i].calls
    IN  [db |-> db, ok |-> bad = {}, calls |-> Calls[stop],
         attempted |-> packages, failed |-> {order[j] : j \in {k \in bad : k <= stop}}]

\* Pacwrap.cmd_sync.  env[n]: what the package manager answers for n.
cmd_sync(db, dryrun, env) ==
    LET packages == query_packages(db, {<<"installed", TRUE>>})
        order == SelectSeq(NameOrder, LAMBDA n : n \in packages)
        runs == [i \in 1..Len(order) |-> install_package(order[i], dryrun, env[order[i]])]
        failed == {order[i] : i \in {j \in 1..Len(order) : ~runs[j].ok}}
        Calls[i \in 0..Len(order)] == IF i = 0 THEN <<>> ELSE Calls[i - 1] \o runs[i].calls
    IN  [db |-> db, ok |-> failed = {}, calls |-> Calls[Len(order)],
         attempted |-> packages, failed |-> failed]

RECURSIVE AddDiscovered(_, _, _)
\* the loop of cmd_updatedb (lines 697-708)
AddDiscovered(db, pkgs, t) ==
    IF pkgs = <<>> THEN db
    ELSE LET pkg == Head(pkgs)
         IN  AddDiscovered(
                 add_package(db, pkg.name, pkg.repo, pkg.dependencies, TRUE, pkg.version,
                             pkg.install_date, pkg.groups, pkg.provides, t),
                 Tail(pkgs), t)

\* cmd_updatedb, had it marked what it does not discover as uninstalled
cmd_updatedb_prunes(db, env, t) ==
    LET d == get_explicitly_installed_packages(env)
        names == {d.pkgs[i].name : i \in 1..Len(d.pkgs)}
        db1 == AddDiscovered(db, d.pkgs, t)
    IN  [db |-> save([db1 EXCEPT !.data.packages =
                        [n \in DOMAIN @ |-> IF n \in names THEN @[n]
                                            ELSE [@[n] EXCEPT !.installed = FALSE]]]),
         ok |-> TRUE, calls |-> d.calls, count |-> Len(d.pkgs)]

\* Pacwrap.cmd_updatedb
cmd_updatedb(db, env, t) ==
    LET d == get_explicitly_installed_packages(env)
    IN  [db |-> AddDiscovered(db, d.pkgs, t), ok |-> TRUE, calls |-> d.calls,
         count |-> Len(d.pkgs)]

\* Pacwrap.cmd_query: filters holds installed and repo when they are given
cmd_query(db, filters) ==
    [db |-> db, ok |-> TRUE, calls |-> <<>>, found |-> query_packages(db, filters)]


(* Documents: the files export writes and import reads.  exists: the path  *)
(* names a file; format: its suffix; ismap: "packages" is a mapping.       *)
NoDoc == [exists |-> FALSE, format |-> "json", ismap |-> FALSE, packages |-> NoPackages]

Doc(format, pkgs) == [exists |-> TRUE, format |-> format, ismap |-> TRUE, packages |-> pkgs]

Without(pkg, keys) == [f \in DOMAIN pkg \ keys |-> pkg[f]]

\* Database.export_data(include_metadata=False)
export_data(db) ==
    [n \in DOMAIN db.data.packages |-> Without(db.data.packages[n], {"update_history"})]

\* The table cmd_export writes for toml (lines 768-775): the installed
\* entries, without name and update_history
toml_table(pkgs) ==
    [n \in {m \in DOMAIN pkgs : pkgs[m].installed} |-> Without(pkgs[n], {"name", "update_history"})]

\* Pacwrap.cmd_export
cmd_export(db, format) ==
    [db |-> db, ok |-> TRUE, calls |-> <<>>,
     doc |-> IF format = "json" THEN Doc("json", export_data(db))
             ELSE Doc("toml", toml_table(export_data(db)))]

RequiredKeys == {"repo", "installed", "dependencies", "groups", "provides"}

\* pkg.get(key, default)
Get(pkg, key, default) == IF key \in DOMAIN pkg THEN pkg[key] ELSE default

\* An entry of a document that is not a table: null or a number in JSON, a
\* number in TOML
Scalar == [scalar |-> TRUE]

IsMapping(pkg) == "scalar" \notin DOMAIN pkg

RECURSIVE ImportEntries(_, _, _, _)
\* the loop of cmd_import (lines 815-830); imported counts the entries upserted.
\* raised: `key in pkg` raised TypeError on an entry that is not a table, and
\* the except of line 835 ended the loop.
ImportEntries(r, pkgs, names, t) ==
    IF names = <<>> THEN r
    ELSE LET name == Head(names)
             pkg == pkgs[name]
         IN  IF ~IsMapping(pkg)
             THEN [r EXCEPT !.raised = TRUE]
             ELSE IF ~(RequiredKeys \subseteq DOMAIN pkg)
             THEN ImportEntries(r, pkgs, Tail(names), t)
             ELSE ImportEntries(
                    [db |-> add_package(r.db, name, Get(pkg, "repo", "unknown"),
                                        Get(pkg, "dependencies", <<>>),
                                        Get(pkg, "installed", FALSE),
                                        Get(pkg, "version", ""),
                                        Get(pkg, "install_date", NoDate),
                                        Get(pkg, "groups", <<>>),
                                        Get(pkg, "provides", <<>>), t),
                     imported |-> r.imported + 1, raised |-> FALSE],
                    pkgs, Tail(names), t)

\* Pacwrap.cmd_import
cmd_import(db, doc, t) ==
    IF ~doc.exists \/ doc.format \notin {"json", "toml"} \/ ~doc.ismap
    THEN [db |-> db, ok |-> FALSE, calls |-> <<>>, count |-> 0]
    ELSE LET order == SelectSeq(NameOrder, LAMBDA n : n \in DOMAIN doc.packages)
             r == ImportEntries([db |-> db, imported |-> 0, raised |-> FALSE],
                                doc.packages, order, t)
         IN  [db |-> r.db, ok |-> ~r.raised, calls |-> <<>>, count |-> r.imported]

\* Pacwrap.cmd_health_check.  tdb is Database(/tmp/pacwrap_test_db.json); the
\* four tests run on it unless dryrun, the sample entry goes to self.database.
cmd_health_check(db, tdb, dryrun, t) ==
    LET tested == IF dryrun THEN tdb
                  ELSE add_package(tdb, "test-pkg", "test-repo", <<>>, TRUE, "", NoDate,
                                   <<>>, <<>>, t)
        t2 == dryrun \/ "test-pkg" \in DOMAIN tested.data.packages
        db1 == add_package(db, "test-pkg", "test-repo", <<>>, TRUE, "1.0.0",
                           strftime_now(t), <<"test-group">>, <<"test-provides">>, t)
        pkg == db1.data.packages["test-pkg"]
        verified == pkg.version = "1.0.0" /\ pkg.groups = <<"test-group">>
        db2 == IF ~dryrun THEN set_installed(db1, "test-pkg", FALSE, t) ELSE db1
    IN  [db |-> db2, ok |-> t2 /\ verified, calls |-> <<>>,
         tdb |-> tested, unlink |-> ~dryrun]

---------------------------------------------------------------------------
(* The state machine *)

UserNames == {"htop", "yay-bin"}

Responses == {"y", "Y", "", "yes"}

\* The ages, in days, of the timestamps of a ledger an earlier run left behind
LegacyAges == {10}

LegacyDate(kind, age) == Stamp(kind, StartTime - age * SecondsPerDay)

LegacyEntry ==
    [name |-> "htop", installed |-> TRUE, repo |-> "extra",
     dependencies |-> <<"ncurses", "libnl">>, groups |-> <<>>, provides |-> <<>>,
     version |-> "3.3.0", install_date |-> SysDate,
     update_history |-> <<[version |-> "3.3.0", date |-> LegacyDate("iso", 95)]>>,
     last_update_date |-> LegacyDate("iso", 10)]

\* Ledgers written with ISO timestamps, which _load converts (lines 130-146)
LegacyLedgers ==
    {[packages |-> pk, metadata |-> [last_full_update_date |-> LegacyDate("isoutc", a)]] :
        pk \in {[n \in {"htop"} |-> LegacyEntry]}, a \in LegacyAges}

\* Files given to import that no export of this model wrote
UserDocs ==
    {[exists |-> TRUE, format |-> "json", ismap |-> FALSE, packages |-> NoPackages],
     Doc("json",
         [n \in {"htop", "yay-bin"} |->
            IF n = "htop"
            THEN [repo |-> "extra", installed |-> FALSE,
                  dependencies |-> <<"ncurses", "libnl">>,
                  groups |-> <<>>, provides |-> <<>>,
                  version |-> "3.3.0", install_date |-> SysDate]
            ELSE [repo |-> "aur", installed |-> TRUE, dependencies |-> <<>>,
                  provides |-> <<"yay">>, version |-> "12.0.5"]])}

\* the arguments of a direct add_package call
NoArgs ==
    [name |-> "", repo |-> "", dependencies |-> <<>>, installed |-> FALSE,
     version |-> "", install_date |-> NoDate, groups |-> <<>>, provides |-> <<>>]

\* what the package manager and the helper answered, when a run records it
NoEnv ==
    [pacmanOk |-> TRUE, helperOk |-> TRUE, listOk |-> TRUE, listed |-> {}, outcome |-> <<>>]

NoObs ==
    [cmd |-> "none", pkg |-> "", dryrun |-> FALSE, force |-> FALSE,
     interactive |-> FALSE, response |-> "", ok |-> TRUE, calls |-> <<>>,
     must |-> FALSE, band |-> "", prompted |-> FALSE, ran |-> FALSE, found |-> {}, failed |-> {}, filters |-> {},
     doc |-> NoDoc, count |-> 0, args |-> NoArgs, fault |-> "none",
     verbose |-> FALSE, pc |-> "", spinning |-> FALSE, thread |-> "none", index |-> 0,
     env |-> NoEnv]

Obs(cmd, r) == [NoObs EXCEPT !.cmd = cmd, !.ok = r.ok, !.calls = r.calls]

\* The ledger file is one an earlier run left
Init ==
    /\ file \in {LedgerFile(d) : d \in LegacyLedgers}
    /\ now = StartTime
    /\ last = NoObs

\* The first run: there is no ledger file yet
InitFirstRun ==
    /\ file = AbsentFile
    /\ now = StartTime
    /\ last = NoObs

InitAny == Init \/ InitFirstRun

\* The process ends.  Not crashed: the file holds the last record written, if
\* any was.  Crashed: the process is killed while it writes its k-th record (the
\* file, truncated by open(path, 'w'), holds nothing or a part of the record)
\* or after it has written it.
Exit(r, obs, crash) ==
    /\ Cardinality(DOMAIN r.db.data.packages) <= MaxPkgs
    /\ IF ~crash
       THEN /\ file' = IF r.db.writes = <<>> THEN file
                       ELSE LedgerFile(r.db.writes[Len(r.db.writes)])
            /\ last' = obs
       ELSE \E k \in 1..Len(r.db.writes), torn \in BOOLEAN :
            /\ file' = IF torn THEN DamagedFile("torn") ELSE LedgerFile(r.db.writes[k])
            /\ last' = [obs EXCEPT !.fault = IF torn THEN "torn" ELSE "killed",
                                   !.ok = FALSE, !.count = k]
    /\ now' = now

\* The shell is at its prompt and Pacwrap() can be constructed
Idle == last.cmd = "none"

Started == Idle /\ load(file).usable

\* self.database
Db == load(file).db

\* The ledger as the next process will read it
Ledger(f) == load(f).db.data

\* sys.exit: the prompt is back
Return ==
    /\ ~Idle
    /\ last' = NoObs
    /\ UNCHANGED <<file, now>>

Tick ==
    /\ Idle
    /\ now < StartTime + MaxTicks
    /\ now' = now + 1
    /\ UNCHANGED <<file, last>>

Install(crash) ==
    /\ Started
    /\ \E package \in UserNames, dryrun \in BOOLEAN,
          env \in [ok : BOOLEAN] :
          /\ dryrun => env.ok
          /\ LET r == cmd_install(Db, package, dryrun, env, now)
             IN  Exit(r, [Obs("install", r) EXCEPT !.pkg = package, !.dryrun = dryrun], crash)

Uninstall(crash) ==
    /\ Started
    /\ \E package \in UserNames, dryrun \in BOOLEAN, env \in [ok : BOOLEAN] :
          /\ dryrun => env.ok
          /\ LET r == cmd_uninstall(Db, package, dryrun, env, now)
             IN  Exit(r, [Obs("uninstall", r) EXCEPT !.pkg = package, !.dryrun = dryrun], crash)

\* input("Update anyway? (y/N): ") is reached
Prompted(db, force, interactive, t) ==
    /\ ~force
    /\ ~check_update_policy(db.data.metadata.last_full_update_date, t).must
    /\ interactive

Update(crash) ==
    /\ Started
    /\ \E force \in BOOLEAN, interactive \in BOOLEAN, dryrun \in BOOLEAN,
          env \in [pacmanOk : BOOLEAN, helperOk : BOOLEAN] :
       \E response \in IF Prompted(Db, force, interactive, now) THEN Responses ELSE {""} :
          /\ dryrun => env.pacmanOk /\ env.helperOk
          /\ ~env.pacmanOk => env.helperOk
          /\ LET r == cmd_update(Db, force, interactive, response, dryrun, env, now)
             IN  Exit(r, [Obs("update", r) EXCEPT !.dryrun = dryrun, !.force = force,
                             !.interactive = interactive, !.response = response,
                             !.must = r.must, !.prompted = r.prompted,
                             !.ran = r.ran], crash)

Sync(crash) ==
    /\ Started
    /\ \E dryrun \in BOOLEAN,
          env \in [query_packages(Db, {<<"installed", TRUE>>}) -> [ok : BOOLEAN]] :
          /\ dryrun => \A n \in DOMAIN env : env[n].ok
          /\ LET r == cmd_sync(Db, dryrun, env)
             IN  Exit(r, [Obs("sync", r) EXCEPT !.dryrun = dryrun, !.found = r.attempted,
                             !.failed = r.failed], crash)

UpdateDb(crash) ==
    /\ Started
    /\ \E listOk \in BOOLEAN, listed \in SUBSET SysNames :
       \E outcome \in [listed -> {"explicit", "dependency", "qfail"}] :
          /\ ~listOk => listed = {}
          /\ LET r == cmd_updatedb(Db, [listOk |-> listOk, listed |-> listed, outcome |-> outcome], now)
             IN  Exit(r, [Obs("updatedb", r) EXCEPT !.count = r.count,
                             !.found = {n \in listed : outcome[n] = "explicit"}], crash)

Query(crash) ==
    /\ Started
    /\ \E fi \in SUBSET {<<"installed", TRUE>>, <<"installed", FALSE>>},
          fr \in SUBSET {<<"repo", "aur">>} :
          /\ Cardinality(fi) <= 1
          /\ Cardinality(fr) <= 1
          /\ LET r == cmd_query(Db, fi \cup fr)
             IN  Exit(r, [Obs("query", r) EXCEPT !.found = r.found, !.filters = fi \cup fr], crash)

Export(crash) ==
    /\ Started
    /\ \E format \in {"json", "toml"} :
          LET r == cmd_export(Db, format)
          IN  Exit(r, [Obs("export", r) EXCEPT !.doc = r.doc], crash)

\* import of a file of the user's, or of the file the export before it wrote
Import(crash) ==
    /\ load(file).usable
    /\ \E doc \in IF Idle THEN UserDocs ELSE IF last.cmd = "export" THEN {last.doc} ELSE {} :
          LET r == cmd_import(Db, doc, now)
          IN  Exit(r, [Obs("import", r) EXCEPT !.doc = doc, !.count = r.count], crash)

\* residual: /tmp/pacwrap_test_db.json is there, left by a dry run
HealthCheck(crash) ==
    /\ Started
    /\ \E dryrun \in BOOLEAN, residual \in BOOLEAN :
          LET tdb == load(IF residual THEN LedgerFile(default_data) ELSE AbsentFile).db
              r == cmd_health_check(Db, tdb, dryrun, now)
          IN  Exit(r, [Obs("health-check", r) EXCEPT !.dryrun = dryrun], crash)

Command(crash) ==
    \/ Install(crash)
    \/ Uninstall(crash)
    \/ Update(crash)
    \/ Sync(crash)
    \/ UpdateDb(crash)
    \/ Query(crash)
    \/ Export(crash)
    \/ Import(crash)
    \/ HealthCheck(crash)

Next == Tick \/ Return \/ Command(FALSE)

Spec == Init /\ [][Next]_vars

---------------------------------------------------------------------------
(* The store called directly, as a caller of Database would: a process     *)
(* that constructs Database, calls one method and ends.  count is the      *)
(* number of times the method saved.                                       *)

StoreSetInstalled ==
    /\ Started
    /\ \E name \in UserNames, installed \in BOOLEAN :
          LET r == [db |-> set_installed(Db, name, installed, now), ok |-> TRUE, calls |-> <<>>]
          IN  Exit(r, [Obs("set_installed", r) EXCEPT
                          !.pkg = name, !.count = Len(r.db.writes) - Len(Db.writes)], FALSE)

StoreAddVersionHistory ==
    /\ Started
    /\ \E name \in UserNames, version \in {"3.4.0"} :
          LET r == [db |-> add_version_history(Db, name, version, now), ok |-> TRUE, calls |-> <<>>]
          IN  /\ \A n \in DOMAIN r.db.data.packages :
                    Len(r.db.data.packages[n].update_history) <= MaxHistory
              /\ Exit(r, [Obs("add_version_history", r) EXCEPT
                              !.pkg = name, !.count = Len(r.db.writes) - Len(Db.writes)], FALSE)

NextStore ==
    \/ Tick
    \/ Return
    \/ Install(FALSE)
    \/ Uninstall(FALSE)
    \/ StoreSetInstalled
    \/ StoreAddVersionHistory

SpecStore == InitAny /\ [][NextStore]_vars

---------------------------------------------------------------------------
(* The user's interrupt (SIGINT, raised as KeyboardInterrupt) and the      *)
(* status the process exits with.                                          *)

\* The commands that wait on a subprocess or on input()
LongCommands == {"install", "uninstall", "update", "sync", "updatedb"}

\* KeyboardInterrupt while the command waits, before it has saved anything:
\* no except Exception of a cmd_* catches it, run() prints "Operation
\* cancelled by user" and returns False (lines 994-996).  The file is what
\* the construction of Database left.
Interrupt ==
    /\ Started
    /\ \E cmd \in LongCommands :
          last' = [NoObs EXCEPT !.cmd = cmd, !.ok = FALSE, !.fault = "interrupt"]
    /\ file' = IF Db.writes = <<>> THEN file ELSE LedgerFile(Db.writes[Len(Db.writes)])
    /\ now' = now

\* KeyboardInterrupt in run() before the try of line 987 (while the
\* arguments are parsed): it reaches main's except of line 1030.
InterruptEarly ==
    /\ Started
    /\ last' = [NoObs EXCEPT !.cmd = "startup", !.ok = FALSE, !.fault = "interrupt-early"]
    /\ file' = IF Db.writes = <<>> THEN file ELSE LedgerFile(Db.writes[Len(Db.writes)])
    /\ now' = now

\* main: sys.exit(0 if success else 1); sys.exit(130) on KeyboardInterrupt
exit_status(obs) ==
    IF obs.fault = "interrupt-early" THEN 130
    ELSE IF obs.ok THEN 0
    ELSE 1

NextInterrupt ==
    \/ Tick
    \/ Return
    \/ Install(FALSE)
    \/ Uninstall(FALSE)
    \/ Update(FALSE)
    \/ UpdateDb(FALSE)
    \/ Interrupt
    \/ InterruptEarly

SpecInterrupt == InitAny /\ [][NextInterrupt]_vars

---------------------------------------------------------------------------
(* The executor called directly, as Pacwrap calls it, with every answer    *)
(* of the package manager and the helper; env records the answers.         *)

\* self.system.update_system(self.dryrun)
ExecUpdateSystem ==
    /\ Started
    /\ \E dryrun \in BOOLEAN, env \in [pacmanOk : BOOLEAN, helperOk : BOOLEAN] :
          LET r == update_system(dryrun, env)
          IN  last' = [NoObs EXCEPT !.cmd = "update_system", !.dryrun = dryrun,
                                    !.ok = r.ok, !.calls = r.calls,
                                    !.env.pacmanOk = env.pacmanOk,
                                    !.env.helperOk = env.helperOk]
    /\ file' = IF Db.writes = <<>> THEN file ELSE LedgerFile(Db.writes[Len(Db.writes)])
    /\ now' = now

\* The answers of pacman -Qi and -Si for one listed package
QueryOutcomes == {"explicit", "dependency", "noreason", "qfail", "sifail"}

\* pacwrap updatedb; found: the names get_explicitly_installed_packages returned
Rescan ==
    /\ Started
    /\ \E listOk \in BOOLEAN, listed \in SUBSET SysNames :
       \E outcome \in [listed -> QueryOutcomes] :
          /\ ~listOk => listed = {}
          /\ LET env == [listOk |-> listOk, listed |-> listed, outcome |-> outcome]
                 d == get_explicitly_installed_packages(env)
                 r == cmd_updatedb(Db, env, now)
             IN  Exit(r, [Obs("updatedb", r) EXCEPT
                             !.count = r.count,
                             !.found = {d.pkgs[i].name : i \in 1..Len(d.pkgs)},
                             !.env.listOk = listOk, !.env.listed = listed,
                             !.env.outcome = outcome], FALSE)

NextExecutor ==
    \/ Tick
    \/ Return
    \/ ExecUpdateSystem
    \/ Rescan

SpecExecutor == InitAny /\ [][NextExecutor]_vars

---------------------------------------------------------------------------
(* query on ledgers of three entries, some of them edited by hand so that  *)
(* an entry lacks "installed" or "repo" (_load accepts them as they are)   *)

QueryEntries(n) ==
    {Without([LegacyEntry EXCEPT !.name = n, !.installed = inst, !.repo = repo], drop) :
        inst \in BOOLEAN, repo \in {"aur", "extra"},
        drop \in SUBSET {"installed", "repo"}}

QueryLedgers ==
    {[packages |-> pk, metadata |-> [last_full_update_date |-> NoDate]] :
        pk \in [Names -> UNION {QueryEntries(n) : n \in Names}] \cap
               {f \in [Names -> UNION {QueryEntries(n) : n \in Names}] :
                    \A n \in Names : f[n].name = n}}

InitQuery ==
    /\ file \in {LedgerFile(d) : d \in QueryLedgers}
    /\ now = StartTime
    /\ last = NoObs

\* pacwrap query [--installed true|false] [--repo R]
QueryAny ==
    /\ Started
    /\ \E fi \in SUBSET {<<"installed", TRUE>>, <<"installed", FALSE>>},
          fr \in SUBSET {<<"repo", "aur">>, <<"repo", "extra">>} :
          /\ Cardinality(fi) <= 1
          /\ Cardinality(fr) <= 1
          /\ LET r == cmd_query(Db, fi \cup fr)
             IN  /\ last' = [Obs("query", r) EXCEPT !.found = r.found, !.filters = fi \cup fr]
                 /\ file' = IF r.db.writes = <<>> THEN file
                            ELSE LedgerFile(r.db.writes[Len(r.db.writes)])
    /\ now' = now

NextQuery ==
    \/ Tick
    \/ Return
    \/ QueryAny

SpecQuery == InitQuery /\ [][NextQuery]_vars

---------------------------------------------------------------------------
(* cmd_updatedb statement by statement, with the thread of its Spinner.    *)
(* pc is the statement the main thread is at: "log" (line 692), "try"      *)
(* (lines 694-714), "finally" (line 717: spinner.stop()), "join" (inside   *)
(* stop, at thread.join()), "done" (returned) or "escaped" (an exception   *)
(* has carried control out of cmd_updatedb).  thread is the spinner's      *)
(* thread: "none", "running" or "ended".                                   *)

\* spinner = Spinner(...); spinner.start()
SpinnerStart ==
    /\ Started
    /\ \E verbose \in BOOLEAN :
          last' = [NoObs EXCEPT !.cmd = "updatedb", !.verbose = verbose, !.pc = "log",
                                !.spinning = ~verbose,
                                !.thread = IF verbose THEN "none" ELSE "running"]
    /\ file' = IF Db.writes = <<>> THEN file ELSE LedgerFile(Db.writes[Len(Db.writes)])
    /\ now' = now

\* Spinner._spin: one turn of the loop
Spin ==
    /\ last.thread = "running"
    /\ last' = IF last.spinning
               THEN [last EXCEPT !.index = (@ + 1) % SpinnerFrames]
               ELSE [last EXCEPT !.thread = "ended"]
    /\ UNCHANGED <<file, now>>

\* self.logger.info("updatedb", "Starting database update"): the log file is
\* appended to, or open() raises OSError, or the interrupt arrives here
LogStart ==
    /\ last.pc = "log"
    /\ \E outcome \in {"logged", "oserror", "interrupt"} :
          last' = IF outcome = "logged" THEN [last EXCEPT !.pc = "try"]
                  ELSE [last EXCEPT !.pc = "escaped", !.ok = FALSE, !.fault = outcome]
    /\ UNCHANGED <<file, now>>

\* the try block: it ends, or raises (caught by the except of line 711), or is
\* interrupted; in each case the finally clause is next
TryBody ==
    /\ last.pc = "try"
    /\ \/ \E listOk \in BOOLEAN, listed \in SUBSET SysNames :
             /\ ~listOk => listed = {}
             /\ LET env == [listOk |-> listOk, listed |-> listed,
                            outcome |-> [n \in listed |-> "explicit"]]
                    r == cmd_updatedb(Db, env, now)
                IN  Exit(r, [last EXCEPT !.pc = "finally", !.ok = r.ok, !.calls = r.calls,
                                         !.count = r.count, !.found = listed], FALSE)
       \/ /\ \E fault \in {"exception", "interrupt"} :
                last' = [last EXCEPT !.pc = "finally", !.ok = FALSE, !.fault = fault]
          /\ UNCHANGED <<file, now>>

\* Spinner.stop up to the join: self.spinning = False
SpinnerStop ==
    /\ last.pc = "finally"
    /\ last' = [last EXCEPT !.pc = "join", !.spinning = FALSE]
    /\ UNCHANGED <<file, now>>

\* self.thread.join() returns, and cmd_updatedb with it
Join ==
    /\ last.pc = "join"
    /\ last.thread # "running"
    /\ last' = [last EXCEPT !.pc = "done"]
    /\ UNCHANGED <<file, now>>

\* The process ends: the interpreter waits for the thread, which is not a
\* daemon, before it exits
ProcessEnds ==
    /\ last.pc \in {"done", "escaped"}
    /\ last.thread # "running"
    /\ last' = NoObs
    /\ UNCHANGED <<file, now>>

NextSpinner ==
    \/ Tick
    \/ SpinnerStart
    \/ Spin
    \/ LogStart
    \/ TryBody
    \/ SpinnerStop
    \/ Join
    \/ ProcessEnds

SpecSpinner == InitAny /\ [][NextSpinner]_vars

---------------------------------------------------------------------------
(* import given files of every sort: missing, of an unsupported suffix,    *)
(* without a packages table, with entries that lack fields or are not      *)
(* tables.                                                                 *)

DocEntry(repo, installed) ==
    [repo |-> repo, installed |-> installed, dependencies |-> <<>>,
     groups |-> <<>>, provides |-> <<>>]

ImportDocs ==
    UserDocs \cup
    {NoDoc,
     [Doc("txt", NoPackages) EXCEPT !.format = "txt"],
     Doc("toml", [n \in {"htop", "yay-bin"} |->
                    IF n = "htop" THEN Without(DocEntry("extra", TRUE), {"installed"})
                    ELSE DocEntry("aur", FALSE)]),
     Doc("json", [n \in {"htop", "yay-bin"} |->
                    IF n = "htop" THEN Scalar ELSE DocEntry("aur", TRUE)]),
     Doc("json", [n \in {"htop", "yay-bin"} |->
                    IF n = "htop" THEN DocEntry("core", FALSE) ELSE Scalar])}

ImportFile ==
    /\ Started
    /\ \E doc \in ImportDocs :
          LET r == cmd_import(Db, doc, now)
          IN  Exit(r, [Obs("import", r) EXCEPT !.doc = doc, !.count = r.count], FALSE)

NextImport == Tick \/ Return \/ Install(FALSE) \/ Uninstall(FALSE) \/ ImportFile

SpecImport == Init /\ [][NextImport]_vars

---------------------------------------------------------------------------
(* add_package called directly, and called again by the same caller, in    *)
(* the same second or after the clock has moved.  count numbers the calls. *)

UpsertArgs ==
    {[name |-> n, repo |-> "aur", dependencies |-> <<"git">>, installed |-> i,
      version |-> v, install_date |-> d, groups |-> <<>>, provides |-> <<"yay">>] :
        n \in UserNames, i \in BOOLEAN, v \in {"", "12.0.5"}, d \in {NoDate, SysDate}}

StoreAddPackage ==
    /\ Idle \/ last.cmd = "add_package"
    /\ load(file).usable
    /\ last.count < MaxCalls
    /\ \E a \in UpsertArgs :
          LET r == [db |-> add_package(Db, a.name, a.repo, a.dependencies, a.installed,
                                      a.version, a.install_date, a.groups, a.provides, now),
                    ok |-> TRUE, calls |-> <<>>]
          IN  Exit(r, [Obs("add_package", r) EXCEPT !.pkg = a.name, !.args = a,
                                                    !.count = last.count + 1], FALSE)

\* the clock moves between two calls
ClockBetween ==
    /\ last.cmd = "add_package"
    /\ now < StartTime + MaxTicks
    /\ now' = now + 1
    /\ UNCHANGED <<file, last>>

NextUpsert == Tick \/ Return \/ StoreAddPackage \/ ClockBetween

SpecUpsert == InitAny /\ [][NextUpsert]_vars

---------------------------------------------------------------------------
(* The staleness policy asked about a stored stamp of every form and age   *)

\* the ages end on a whole day and one second before the next
PolicyAges ==
    {d * SecondsPerDay + o : d \in 0..MaxAgeDays, o \in {0, SecondsPerDay - 1}}

PolicyStamps ==
    {NoDate} \cup {Stamp(k, StartTime - a) :
                      k \in {"human", "humanutc", "iso", "isoutc", "sys"}, a \in PolicyAges}

InitPolicy ==
    /\ file \in {LedgerFile([default_data EXCEPT !.metadata.last_full_update_date = s]) :
                    s \in PolicyStamps}
    /\ now = StartTime
    /\ last = NoObs

\* last_update = self.database.data["metadata"].get("last_full_update_date")
\* must_update, message = self._check_update_policy(last_update)
PolicyCheck ==
    /\ Started
    /\ LET pol == check_update_policy(Db.data.metadata.last_full_update_date, now)
       IN  last' = [NoObs EXCEPT !.cmd = "policy", !.must = pol.must, !.band = pol.band]
    /\ UNCHANGED <<file, now>>

NextPolicy == Tick \/ Return \/ PolicyCheck

SpecPolicy == InitPolicy /\ [][NextPolicy]_vars

---------------------------------------------------------------------------
(* Faults: a process killed while it saves, and a ledger file that is not  *)
(* what the program wrote.                                                 *)

DamageKinds == {"torn", "nokeys", "notobject", "unreadable"}

\* the file a later run finds has been cut short, replaced or made unreadable
Damage ==
    /\ Idle
    /\ file.kind = "ledger"
    /\ \E kind \in DamageKinds : file' = DamagedFile(kind)
    /\ UNCHANGED <<now, last>>

\* Pacwrap() on such a file: _load raises and the process dies with a
\* traceback, or returns a record without "packages" or "metadata" and the
\* command's first self.data["packages"] or self.data["metadata"] raises
\* KeyError before any _save.  The file stays as it is.
StartDamaged ==
    /\ Idle
    /\ ~load(file).usable
    /\ last' = [NoObs EXCEPT !.cmd = "startup", !.ok = FALSE,
                             !.fault = IF load(file).raised THEN "raised" ELSE "incomplete"]
    /\ UNCHANGED <<file, now>>

NextFault ==
    \/ Tick
    \/ Return
    \/ Command(FALSE)
    \/ Command(TRUE)
    \/ Damage
    \/ StartDamaged

SpecFault == InitAny /\ [][NextFault]_vars

---------------------------------------------------------------------------
(* Properties.  A step of a command is told by last', which the command    *)
(* sets; the ledger before and after it is the file as a process reads it. *)

Pkgs(f) == Ledger(f).packages

Meta(f) == Ledger(f).metadata

Ran(cmd) == last'.cmd = cmd /\ last'.fault = "none"

ExecutorCalls(obs) == {i \in 1..Len(obs.calls) : IsExecutorCall(obs.calls[i])}

(* C1: no operation removes a name from the ledger, and a successful       *)
(* uninstall of a tracked name sets installed to false and last_update_date *)
(* to the time of the call and changes nothing else: not update_history,   *)
(* not another field, not another entry, not the metadata.                 *)
C1_EntriesKept ==
    [][/\ DOMAIN Pkgs(file) \subseteq DOMAIN Pkgs(file')
       /\ (Ran("uninstall") /\ last'.ok /\ last'.pkg \in DOMAIN Pkgs(file))
            => /\ Pkgs(file') = [Pkgs(file) EXCEPT
                                    ![last'.pkg].installed = FALSE,
                                    ![last'.pkg].last_update_date = strftime_now(now)]
               /\ Meta(file') = Meta(file)]_vars

\* an entry with a history was uninstalled beside another entry
C1_Witness ==
    /\ last.cmd = "uninstall" /\ last.ok /\ ~last.dryrun
    /\ last.pkg \in DOMAIN Pkgs(file)
    /\ ~Pkgs(file)[last.pkg].installed
    /\ Pkgs(file)[last.pkg].update_history # <<>>
    /\ Pkgs(file)[last.pkg].last_update_date = strftime_now(now)
    /\ Cardinality(DOMAIN Pkgs(file)) = 2

(* C2: after an install whose Executor.install succeeded the ledger holds  *)
(* the name, once, with installed = true: the entry is new if the name was *)
(* absent and the same entry if it was present; after one that failed the  *)
(* ledger is what it was, and the command reports failure.                 *)
C2_Install ==
    [][Ran("install") =>
         IF last'.ok
         THEN /\ DOMAIN Pkgs(file') = DOMAIN Pkgs(file) \cup {last'.pkg}
              /\ Pkgs(file')[last'.pkg].name = last'.pkg
              /\ Pkgs(file')[last'.pkg].installed
              /\ \A n \in DOMAIN Pkgs(file) \ {last'.pkg} : Pkgs(file')[n] = Pkgs(file)[n]
         ELSE /\ Ledger(file') = Ledger(file)
              /\ \E i \in 1..Len(last'.calls) : last'.calls[i].cmd \in {"install", "install-aur"}]_vars

\* an entry marked uninstalled was installed again, really
C2_Witness ==
    /\ last.cmd = "install" /\ last.ok /\ ~last.dryrun
    /\ Pkgs(file)[last.pkg].installed
    /\ Pkgs(file)[last.pkg].install_date # strftime_now(now)
    /\ Cardinality(DOMAIN Pkgs(file)) = 2

(* C3: the self-test leaves the real ledger as it was and runs nothing of  *)
(* the executor.                                                           *)
C3_SelfTestIsolated ==
    [][Ran("health-check") =>
         /\ Ledger(file') = Ledger(file)
         /\ ExecutorCalls(last') = {}]_vars

(* C4: a command run with --dryrun leaves the ledger's entries and         *)
(* metadata.last_full_update_date as they were.                            *)
C4_DryRunChangesNothing ==
    [][(last'.cmd \in {"install", "uninstall", "update", "sync", "health-check"}
          /\ last'.fault = "none" /\ last'.dryrun)
         => Ledger(file') = Ledger(file)]_vars

(* C5: metadata.last_full_update_date changes only in an update whose      *)
(* full-system update ran and succeeded, and then to the time of the call. *)
C5_StampOnlyAfterUpdate ==
    [][Meta(file') # Meta(file) =>
         /\ Ran("update") /\ last'.ok
         /\ \E i \in 1..Len(last'.calls) : last'.calls[i].cmd = "update"
         /\ Meta(file').last_full_update_date = strftime_now(now)]_vars

(* C6: an update that is neither due nor forced stops, reporting success   *)
(* and changing nothing, unless it is interactive and the answer is y or   *)
(* Y; an update that is due or forced calls update_system and asks nothing. *)
C6_UpdatePolicy ==
    [][Ran("update") =>
         /\ (~last'.must /\ ~last'.force /\ ~last'.interactive)
              => ~last'.ran /\ ~last'.prompted
         /\ (~last'.must /\ ~last'.force /\ last'.interactive)
              => last'.prompted /\ (last'.ran <=> last'.response \in {"y", "Y"})
         /\ (last'.must \/ last'.force) => last'.ran /\ ~last'.prompted
         /\ ~last'.ran => /\ last'.ok
                          /\ last'.calls = <<>>
                          /\ file' = file
         /\ last'.must = (LET d == Meta(file).last_full_update_date
                          IN  d.k # "humanutc" \/ now - d.t >= 90 * SecondsPerDay)]_vars

\* the prompt was answered Y and the update ran although it was not due
C6_Witness ==
    /\ last.cmd = "update" /\ ~last.must /\ ~last.force /\ last.interactive
    /\ last.response = "Y" /\ last.ran /\ last.ok /\ ~last.dryrun
    /\ Meta(file).last_full_update_date = strftime_now(now)

(* C7: with a stamp the policy can parse, the update is mandatory exactly  *)
(* from 90 whole days of age on, and the advice is "warning" from 30,      *)
(* "recommended" from 7 and "recent" below; with no stamp, or one it       *)
(* cannot parse, the update is mandatory.                                  *)
C7_PolicyBands ==
    last.cmd = "policy" =>
        LET d == Meta(file).last_full_update_date
        IN  IF d.k # "humanutc"
            THEN last.must /\ last.band = (IF d.k = "none" THEN "none" ELSE "invalid")
            ELSE \E a \in 0..(MaxAgeDays + 1) :
                    /\ a * SecondsPerDay <= now - d.t
                    /\ now - d.t < (a + 1) * SecondsPerDay
                    /\ last.must = (a >= 90)
                    /\ last.band = (IF a >= 90 THEN "critical"
                                    ELSE IF a >= 30 THEN "warning"
                                    ELSE IF a >= 7 THEN "recommended"
                                    ELSE "recent")

\* a stamp exactly 90 days old was judged
C7_Witness ==
    /\ last.cmd = "policy" /\ last.must /\ last.band = "critical"
    /\ Meta(file).last_full_update_date.k = "humanutc"
    /\ now - Meta(file).last_full_update_date.t = 90 * SecondsPerDay

(* C8: set_installed and add_version_history called with a name the ledger *)
(* does not hold save nothing and leave the ledger as it was, and so does  *)
(* an uninstall of such a name that the executor carried out.              *)
C8_AbsentNameIsNoOp ==
    [][/\ (last'.cmd \in {"set_installed", "add_version_history"}
             /\ last'.pkg \notin DOMAIN Pkgs(file))
            => last'.count = 0 /\ Ledger(file') = Ledger(file)
       /\ (Ran("uninstall") /\ last'.ok /\ last'.pkg \notin DOMAIN Pkgs(file))
            => Ledger(file') = Ledger(file)]_vars

\* add_version_history was called for a name the ledger, not empty, lacks
C8_Witness ==
    /\ last.cmd = "add_version_history"
    /\ last.pkg \notin DOMAIN Pkgs(file)
    /\ last.count = 0
    /\ Pkgs(file) # NoPackages

(* C9: a process killed at any moment of an operation leaves a file that   *)
(* the next load reads as a complete record holding every entry the file   *)
(* held before.                                                            *)
C9_SaveIsAtomic ==
    [][last'.fault \in {"torn", "killed"} =>
         /\ file'.kind = "ledger"
         /\ DOMAIN Pkgs(file) \subseteq DOMAIN Pkgs(file')]_vars

(* C10: whatever the file holds, load raises nothing and returns a usable  *)
(* record: the file's, or the empty default when the file is absent or not *)
(* what the program wrote.                                                 *)
C10_LoadNeverFails ==
    /\ ~load(file).raised
    /\ load(file).usable
    /\ file.kind # "ledger" => Ledger(file) = default_data

(* C11: importing the document an export has just written gives every     *)
(* exported entry back with the exported value in every field the document *)
(* carries (update_history is not exported), and under its own name.       *)
C11_RoundTrip ==
    [][(last.cmd = "export" /\ Ran("import")) =>
         \A n \in DOMAIN last.doc.packages :
            /\ n \in DOMAIN Pkgs(file')
            /\ Pkgs(file')[n].name = n
            /\ \A f \in DOMAIN last.doc.packages[n] :
                  Pkgs(file')[n][f] = last.doc.packages[n][f]]_vars

(* C12: a second add_package with the arguments of the one before it      *)
(* leaves the ledger as the first left it but for the entry's              *)
(* last_update_date, which is later than the first call made it.           *)
C12_UpsertTwice ==
    [][(last.cmd = "add_package" /\ last'.cmd = "add_package"
          /\ last'.args = last.args /\ last'.count = last.count + 1)
         => /\ Pkgs(file') = [Pkgs(file) EXCEPT ![last'.pkg].last_update_date =
                                                   Pkgs(file')[last'.pkg].last_update_date]
            /\ Meta(file') = Meta(file)
            /\ Pkgs(file')[last'.pkg].last_update_date.t
                  > Pkgs(file)[last'.pkg].last_update_date.t]_vars

(* C13: an import of a file that is missing, of an unsupported format or   *)
(* without a packages table fails and leaves the ledger as it was; any     *)
(* other import succeeds, upserts exactly the entries that carry repo,     *)
(* installed, dependencies, groups and provides, leaves what the ledger    *)
(* holds under the other names as it was, and counts the entries upserted. *)
C13_Import ==
    [][Ran("import") =>
         LET doc == last'.doc
             valid == {n \in DOMAIN doc.packages : RequiredKeys \subseteq DOMAIN doc.packages[n]}
         IN  IF ~doc.exists \/ doc.format \notin {"json", "toml"} \/ ~doc.ismap
             THEN ~last'.ok /\ Ledger(file') = Ledger(file)
             ELSE /\ last'.ok
                  /\ last'.count = Cardinality(valid)
                  /\ DOMAIN Pkgs(file') = DOMAIN Pkgs(file) \cup valid
                  /\ \A n \in valid :
                        /\ Pkgs(file')[n].last_update_date = strftime_now(now)
                        /\ \A f \in RequiredKeys : Pkgs(file')[n][f] = doc.packages[n][f]
                  /\ \A n \in DOMAIN Pkgs(file) \ valid : Pkgs(file')[n] = Pkgs(file)[n]
                  /\ Meta(file') = Meta(file)]_vars

(* C14: after a rescan every package it discovered has an entry with      *)
(* installed = true, every entry it did not discover is exactly what it    *)
(* was, no entry is gone, and no entry that was installed is uninstalled.  *)
C14_RescanAdditive ==
    [][Ran("updatedb") =>
         /\ last'.ok
         /\ DOMAIN Pkgs(file') = DOMAIN Pkgs(file) \cup last'.found
         /\ \A n \in last'.found : Pkgs(file')[n].installed
         /\ \A n \in DOMAIN Pkgs(file) \ last'.found : Pkgs(file')[n] = Pkgs(file)[n]
         /\ \A n \in DOMAIN Pkgs(file) : Pkgs(file)[n].installed => Pkgs(file')[n].installed
         /\ Meta(file') = Meta(file)]_vars

\* a rescan found yay-bin and not htop, which the ledger holds as uninstalled
C14_Witness ==
    /\ last.cmd = "updatedb" /\ last.found = {"yay-bin"} /\ last.count = 1
    /\ DOMAIN Pkgs(file) = {"htop", "yay-bin"}
    /\ ~Pkgs(file)["htop"].installed
    /\ Pkgs(file)["yay-bin"].installed
    /\ Pkgs(file)["yay-bin"].last_update_date = strftime_now(now)

(* C15: sync calls install_package for the entries with installed = true   *)
(* and for no other, runs one install command for each of them when it is  *)
(* not a dry run, whether or not an earlier one failed, succeeds exactly   *)
(* when none failed, and leaves the ledger as it was.                      *)
C15_Sync ==
    [][Ran("sync") =>
         /\ last'.found = {n \in DOMAIN Pkgs(file) : Pkgs(file)[n].installed}
         /\ \A n \in Names :
               Cardinality({i \in 1..Len(last'.calls) :
                               /\ last'.calls[i].cmd \in {"install", "install-aur"}
                               /\ last'.calls[i].pkg = n})
                 = (IF n \in last'.found /\ ~last'.dryrun THEN 1 ELSE 0)
         /\ last'.failed \subseteq last'.found
         /\ last'.ok <=> last'.failed = {}
         /\ file' = file]_vars

\* the first of two installs failed, the second was run all the same
C15_Witness ==
    /\ last.cmd = "sync" /\ ~last.dryrun /\ ~last.ok
    /\ last.found = {"htop", "yay-bin"}
    /\ last.failed = {"htop"}
    /\ \E i \in 1..Len(last.calls) : last.calls[i] = Call("install-aur", "yay-bin")

(* C16: a run the user interrupted exits with a status that is neither 0  *)
(* nor 1; a run exits 0 only when its command succeeded and 1 only when it *)
(* failed without being interrupted.                                       *)
C16_ExitStatus ==
    (last.cmd # "none" /\ last.fault \in {"none", "interrupt", "interrupt-early"}) =>
        /\ last.fault # "none" => exit_status(last) \notin {0, 1}
        /\ exit_status(last) = 0 => last.ok /\ last.fault = "none"
        /\ exit_status(last) = 1 => ~last.ok /\ last.fault = "none"

(* C17: once control has left cmd_updatedb, by its return or by an         *)
(* exception, its spinner has been stopped: spinning is false and the      *)
(* spinner's thread has ended.                                             *)
C17_SpinnerStopped ==
    last.pc \in {"done", "escaped"} => ~last.spinning /\ last.thread # "running"

(* C18: a query returns exactly the entries whose installed and repo equal *)
(* every filter given for them, an entry without the filtered field being  *)
(* kept; without filters it returns every entry; and the ledger is as it   *)
(* was.                                                                    *)
C18_Query ==
    [][Ran("query") =>
        /\ last'.found =
              {n \in DOMAIN Pkgs(file) :
                  \A key \in {"installed", "repo"} :
                      (key \in DOMAIN Pkgs(file)[n] /\ \E f \in last'.filters : f[1] = key)
                          => <<key, Pkgs(file)[n][key]>> \in last'.filters}
        /\ (last'.filters = {} => last'.found = DOMAIN Pkgs(file))
        /\ Ledger(file') = Ledger(file)]_vars

C18_Witness ==
    /\ last.cmd = "query"
    /\ last.filters = {<<"installed", TRUE>>, <<"repo", "aur">>}
    /\ Cardinality(DOMAIN Pkgs(file)) = 3
    /\ last.found # DOMAIN Pkgs(file)
    /\ \E n \in last.found : "repo" \notin DOMAIN Pkgs(file)[n]
    /\ \E n \in last.found : "repo" \in DOMAIN Pkgs(file)[n] /\ "installed" \in DOMAIN Pkgs(file)[n]

(* C19: an entry gets its install_date when it is created (the date given, *)
(* or else the time of the call), and a later operation changes it only    *)
(* when it is an import or a rescan that gives the entry a non-empty       *)
(* install_date, which becomes the new value; install, uninstall, update,  *)
(* sync, export and query leave it as it was.                              *)
C19_InstallDateKept ==
    [][\A n \in DOMAIN Pkgs(file') :
          IF n \in DOMAIN Pkgs(file)
          THEN Pkgs(file')[n].install_date # Pkgs(file)[n].install_date =>
                  /\ IsSet(Pkgs(file')[n].install_date)
                  /\ \/ /\ last'.cmd = "import"
                        /\ n \in DOMAIN last'.doc.packages
                        /\ "install_date" \in DOMAIN last'.doc.packages[n]
                        /\ Pkgs(file')[n].install_date = last'.doc.packages[n].install_date
                     \/ /\ last'.cmd = "updatedb"
                        /\ n \in last'.found
                        /\ Pkgs(file')[n].install_date = Catalog(n).install_date
          ELSE IsSet(Pkgs(file')[n].install_date)]_vars

(* C20: when the ledger holds the stamp a successful update wrote less     *)
(* than 7 days ago, an update that is neither forced nor interactive finds *)
(* the update not mandatory and does not call update_system.               *)
C20_NoUpdateAfterUpdate ==
    [][(/\ Ran("update")
        /\ ~last'.force
        /\ ~last'.interactive
        /\ \E t \in StartTime..now :
              /\ Meta(file).last_full_update_date = strftime_now(t)
              /\ now - t < RecommendedDays * SecondsPerDay)
       => ~last'.must /\ ~last'.ran /\ last'.calls = <<>>]_vars

(* C21: update_system, when not a dry run, runs the official update first, *)
(* runs the helper's update after it exactly when a helper is configured   *)
(* and the official update succeeded, runs nothing after a stage that      *)
(* failed, and reports success exactly when every stage it ran succeeded.  *)
C21_UpdateStages ==
    (last.cmd = "update_system" /\ ~last.dryrun) =>
        LET helperRan == \E i \in 1..Len(last.calls) : last.calls[i].cmd = "update-aur"
        IN  /\ Len(last.calls) >= 1
            /\ last.calls[1] = Call("update", "")
            /\ helperRan <=> (aur_helper # "" /\ last.env.pacmanOk)
            /\ last.calls \in {<<Call("update", "")>>,
                               <<Call("update", ""), Call("update-aur", "")>>}
            /\ last.ok <=> (last.env.pacmanOk /\ (helperRan => last.env.helperOk))

\* the official update succeeded, the helper's failed
C21_Witness ==
    /\ last.cmd = "update_system" /\ ~last.dryrun
    /\ last.env.pacmanOk /\ ~last.env.helperOk
    /\ Len(last.calls) = 2
    /\ ~last.ok

(* C22: a rescan whose listing succeeded returns exactly the listed        *)
(* packages whose queries succeeded with the install reason "explicit": a  *)
(* package whose query failed is left out alone, one whose reason is not   *)
(* explicit or is missing is never returned; the returned packages are in  *)
(* the ledger as installed, and the rescan reports success.                *)
C22_ScanIsolatesFailures ==
    [][(Ran("updatedb") /\ last'.env.listOk) =>
         /\ last'.ok
         /\ \A n \in last'.env.listed :
               n \in last'.found <=> last'.env.outcome[n] = "explicit"
         /\ last'.found \subseteq last'.env.listed
         /\ last'.count = Cardinality(last'.found)
         /\ \A n \in last'.found : n \in DOMAIN Pkgs(file') /\ Pkgs(file')[n].installed
         /\ \A n \in DOMAIN Pkgs(file') \ last'.found :
               n \in DOMAIN Pkgs(file) /\ Pkgs(file')[n] = Pkgs(file)[n]]_vars

\* one listed package's query failed, the other was returned and recorded
C22_Witness ==
    /\ last.cmd = "updatedb" /\ last.ok
    /\ last.env.listed = {"htop", "yay-bin"}
    /\ last.env.outcome["htop"] = "qfail"
    /\ last.found = {"yay-bin"}
    /\ "yay-bin" \in DOMAIN Pkgs(file) /\ Pkgs(file)["yay-bin"].installed

(* C23: after a successful install the entry of the name has no            *)
(* dependencies, groups or provides and its repo is "core" or "aur",       *)
(* whatever the entry held before; if the name was tracked, its version    *)
(* and update_history are what they were.                                  *)
C23_InstallResetsDetails ==
    [][(Ran("install") /\ last'.ok) =>
         LET e == Pkgs(file')[last'.pkg]
         IN  /\ e.dependencies = <<>>
             /\ e.groups = <<>>
             /\ e.provides = <<>>
             /\ e.repo \in {"core", "aur"}
             /\ last'.pkg \in DOMAIN Pkgs(file) =>
                   /\ e.version = Pkgs(file)[last'.pkg].version
                   /\ e.update_history = Pkgs(file)[last'.pkg].update_history]_vars

\* htop, recorded with its dependencies, repo and version, was installed again
C23_Witness ==
    /\ last.cmd = "install" /\ last.ok /\ last.pkg = "htop"
    /\ Pkgs(file)["htop"].dependencies = <<>>
    /\ Pkgs(file)["htop"].repo = "core"
    /\ Pkgs(file)["htop"].version = "3.3.0"
    /\ Len(Pkgs(file)["htop"].update_history) >= 1
    /\ Pkgs(file)["htop"].last_update_date = strftime_now(now)

===========================================================================
